---------------------------- MODULE Spec2Model ----------------------------
(***************************************************************************)
(* Loss dispatch, optimizer assembly and experiment directory of           *)
(* SimilarityLearning.                                                     *)
(*                                                                         *)
(*   src/common.py         get_config, get_triplet_strategy, create_log_dir*)
(*   src/losses/config.py  LossConfig variants and their optimizer()       *)
(*   src/models.py         SimNet.layers / SimNet.all_params               *)
(*                                                                         *)
(* Representation.  Python floats are integers in a fixed unit: learning   *)
(* rates, margins and loss scales in an abstract unit (only equality and   *)
(* the product 10 * lr[0] matter), momentum, gamma and factor in tenths,   *)
(* weight_decay in ten-thousandths.  A string such as LOSS_OPTIONS_STR is  *)
(* the sequence of its whitespace-separated words.  A parameter collection *)
(* (module.parameters()) is the set of the names of the modules whose      *)
(* parameters it yields.  A call's outcome is a record with the exception  *)
(* raised (type "none" when it returned) and the value returned.  A path   *)
(* is the sequence of its segments, a formatted segment such as lr=0.001  *)
(* the pair of its key and its value; the file system is the set of the   *)
(* directories that exist.                                                *)
(***************************************************************************)
EXTENDS Integers, Sequences, FiniteSets

VARIABLES pc, args, config, raised, strategy, call, optim, dirs, history

vars == <<pc, args, config, raised, strategy, call, optim, dirs, history>>

(***************************************************************************)
(* Bounds of the input domains.                                            *)
(***************************************************************************)
MaxDim == 2
MaxMargin == 2
MaxScale == 2
MaxSemihardN == 2
MaxLr == 2
MaxRuns == 2

(***************************************************************************)
(* Input domains.                                                          *)
(***************************************************************************)
LossNames == {"softmax", "contrastive", "triplet", "arcface", "center", "coco", "kldiv",
              "bogus", "Softmax"}
TaskNames == {"mnist", "sts", "ami", "snli", "sst2", "bogus"}
DistanceNames == {"euclidean", "cosine"}
StrategyNames == {"all", "semihard-neg", "hardest-neg", "hardest-pos-neg", "bogus"}

ArgsDomain ==
    [loss : LossNames, nfeat : 1..MaxDim, nclass : 1..MaxDim, task : TaskNames,
     margin : 1..MaxMargin, distance : DistanceNames, size_average : BOOLEAN,
     loss_scale : 1..MaxScale, triplet_strategy : StrategyNames,
     semihard_n : 1..MaxSemihardN]

(***************************************************************************)
(* Exceptions and outcomes.                                                *)
(***************************************************************************)
NoException == [type |-> "none", msg |-> <<>>]
ValueError(msg) == [type |-> "ValueError", msg |-> msg]
IndexError == [type |-> "IndexError", msg |-> <<"list", "index", "out", "of", "range">>]

NoValue == [variant |-> "None"]
Return(v) == [exc |-> NoException, value |-> v]
Raise(e) == [exc |-> e, value |-> NoValue]

(***************************************************************************)
(* common.py: the option strings printed in error messages and help.       *)
(***************************************************************************)
LOSS_OPTIONS_STR ==
    <<"softmax", "/", "contrastive", "/", "triplet", "/", "arcface", "/", "center", "/", "coco">>
TRIPLET_SAMPLING_OPTIONS_STR ==
    <<"all", "/", "semihard-neg", "/", "hardest-neg", "/", "hardest-pos-neg">>

(***************************************************************************)
(* distances.Distance.from_name: the names the configuration surface       *)
(* recognizes, each resolved to its metric.                                *)
(***************************************************************************)
DistanceFromName(name) ==
    IF name = "euclidean" THEN "EuclideanDistance" ELSE "CosineDistance"

(***************************************************************************)
(* losses.triplet: the four sampling strategies as constructed values.     *)
(***************************************************************************)
BatchAll == [variant |-> "BatchAll"]
SemiHardNegative(n) == [variant |-> "SemiHardNegative", n |-> n]
HardestNegative == [variant |-> "HardestNegative"]
HardestPositiveNegative == [variant |-> "HardestPositiveNegative"]

(***************************************************************************)
(* The strategy used when none is requested: the default of the            *)
(* --triplet-strategy option (common.py) and the default of TripletConfig's*)
(* sampling parameter (losses/config.py).                                  *)
(***************************************************************************)
TripletStrategyOptionDefault == "all"
TripletConfigDefaultSampling == BatchAll

(***************************************************************************)
(* common.py: get_triplet_strategy                                         *)
(***************************************************************************)
\* variant: an unrecognized name falls back to the default strategy
get_triplet_strategy_default(strategy_name, semihard_n) ==
    IF strategy_name = "semihard-neg" THEN Return(SemiHardNegative(semihard_n))
    ELSE IF strategy_name = "hardest-neg" THEN Return(HardestNegative)
    ELSE IF strategy_name = "hardest-pos-neg" THEN Return(HardestPositiveNegative)
    ELSE Return(BatchAll)

\* variant: the two hardest-mining names are exchanged
get_triplet_strategy_swapped(strategy_name, semihard_n) ==
    IF strategy_name = "all" THEN Return(BatchAll)
    ELSE IF strategy_name = "semihard-neg" THEN Return(SemiHardNegative(semihard_n))
    ELSE IF strategy_name = "hardest-neg" THEN Return(HardestPositiveNegative)
    ELSE IF strategy_name = "hardest-pos-neg" THEN Return(HardestNegative)
    ELSE Raise(ValueError(<<"Triplet", "strategy", "should", "be", "one", "of:">>
                          \o TRIPLET_SAMPLING_OPTIONS_STR))

get_triplet_strategy(strategy_name, semihard_n) ==
    IF strategy_name = "all" THEN Return(BatchAll)
    ELSE IF strategy_name = "semihard-neg" THEN Return(SemiHardNegative(semihard_n))
    ELSE IF strategy_name = "hardest-neg" THEN Return(HardestNegative)
    ELSE IF strategy_name = "hardest-pos-neg" THEN Return(HardestPositiveNegative)
    ELSE Raise(ValueError(<<"Triplet", "strategy", "should", "be", "one", "of:">>
                          \o TRIPLET_SAMPLING_OPTIONS_STR))

(***************************************************************************)
(* losses/config.py: the LossConfig variants (constructors).  Each record  *)
(* holds the fields LossConfig.__init__ stores (name, loss_module, loss,   *)
(* test_distance) and the constructor arguments handed to the loss and to  *)
(* the loss module.                                                        *)
(***************************************************************************)
KLDivergenceConfig(nfeat) ==
    [variant |-> "KLDivergenceConfig", name |-> "KL-Divergence",
     loss_module |-> "STSBaselineClassifier", loss |-> "KLDivLoss",
     test_distance |-> "CosineDistance", nfeat |-> nfeat]

SoftmaxConfig(nfeat, nclass) ==
    [variant |-> "SoftmaxConfig", name |-> "Cross Entropy",
     loss_module |-> "CenterLinear", loss |-> "NLLLoss",
     test_distance |-> "CosineDistance", nfeat |-> nfeat, nclass |-> nclass]

ArcFaceConfig(nfeat, nclass, margin, s) ==
    [variant |-> "ArcFaceConfig", name |-> "ArcFace Loss",
     loss_module |-> "ArcLinear", loss |-> "CrossEntropyLoss",
     test_distance |-> "CosineDistance", nfeat |-> nfeat, nclass |-> nclass,
     margin |-> margin, s |-> s]

CenterConfig(nfeat, nclass, lweight, distance) ==
    [variant |-> "CenterConfig", name |-> "Center Loss",
     loss_module |-> "CenterLinear", loss |-> "SoftmaxCenterLoss",
     test_distance |-> distance, nfeat |-> nfeat, nclass |-> nclass,
     lweight |-> lweight, distance |-> distance]

CocoConfig(nfeat, nclass, alpha) ==
    [variant |-> "CocoConfig", name |-> "CoCo Loss",
     loss_module |-> "CocoLinear", loss |-> "CrossEntropyLoss",
     test_distance |-> "CosineDistance", nfeat |-> nfeat, nclass |-> nclass,
     alpha |-> alpha]

ContrastiveConfig(margin, distance, size_average, online) ==
    [variant |-> "ContrastiveConfig", name |-> "Contrastive Loss",
     loss_module |-> "None", loss |-> "ContrastiveLoss",
     test_distance |-> distance, margin |-> margin, distance |-> distance,
     size_average |-> size_average, online |-> online]

TripletConfig(margin, scaling, distance, size_average, online, sampling) ==
    [variant |-> "TripletConfig", name |-> "Triplet Loss",
     loss_module |-> "None", loss |-> "TripletLoss",
     test_distance |-> distance, margin |-> margin, scaling |-> scaling,
     distance |-> distance, size_average |-> size_average, online |-> online,
     sampling |-> sampling]

(***************************************************************************)
(* common.py: get_config.  In the triplet branch the sampling strategy is  *)
(* an argument of the constructor call: when get_triplet_strategy raises,  *)
(* the exception leaves get_config and no TripletConfig is built.          *)
(***************************************************************************)
\* variant: the last branch is taken without testing the name
get_config_fallthrough(a) ==
    IF a.loss = "softmax" THEN Return(SoftmaxConfig(a.nfeat, a.nclass))
    ELSE IF a.loss = "contrastive" THEN
        Return(ContrastiveConfig(a.margin, DistanceFromName(a.distance), a.size_average,
                                 a.task # "sts" /\ a.task # "snli"))
    ELSE IF a.loss = "triplet" THEN
        LET sampling == get_triplet_strategy(a.triplet_strategy, a.semihard_n)
        IN  IF sampling.exc.type # "none" THEN Raise(sampling.exc)
            ELSE Return(TripletConfig(a.margin, a.loss_scale, DistanceFromName(a.distance),
                                      a.size_average, a.task # "sts" /\ a.task # "snli",
                                      sampling.value))
    ELSE IF a.loss = "arcface" THEN
        Return(ArcFaceConfig(a.nfeat, a.nclass, a.margin, a.loss_scale))
    ELSE IF a.loss = "center" THEN
        Return(CenterConfig(a.nfeat, a.nclass, a.loss_scale, DistanceFromName(a.distance)))
    ELSE IF a.loss = "coco" THEN Return(CocoConfig(a.nfeat, a.nclass, a.loss_scale))
    ELSE Return(KLDivergenceConfig(a.nfeat))

\* variant: the arcface branch passes its two options in the other order
get_config_swapped(a) ==
    IF a.loss = "softmax" THEN Return(SoftmaxConfig(a.nfeat, a.nclass))
    ELSE IF a.loss = "contrastive" THEN
        Return(ContrastiveConfig(a.margin, DistanceFromName(a.distance), a.size_average,
                                 a.task # "sts" /\ a.task # "snli"))
    ELSE IF a.loss = "triplet" THEN
        LET sampling == get_triplet_strategy(a.triplet_strategy, a.semihard_n)
        IN  IF sampling.exc.type # "none" THEN Raise(sampling.exc)
            ELSE Return(TripletConfig(a.margin, a.loss_scale, DistanceFromName(a.distance),
                                      a.size_average, a.task # "sts" /\ a.task # "snli",
                                      sampling.value))
    ELSE IF a.loss = "arcface" THEN
        Return(ArcFaceConfig(a.nfeat, a.nclass, a.loss_scale, a.margin))
    ELSE IF a.loss = "center" THEN
        Return(CenterConfig(a.nfeat, a.nclass, a.loss_scale, DistanceFromName(a.distance)))
    ELSE IF a.loss = "coco" THEN Return(CocoConfig(a.nfeat, a.nclass, a.loss_scale))
    ELSE IF a.loss = "kldiv" THEN Return(KLDivergenceConfig(a.nfeat))
    ELSE Raise(ValueError(<<"Loss", "function", "should", "be", "one", "of:">>
                          \o LOSS_OPTIONS_STR))

\* variant: online mining is enabled for the tasks known to mine online
get_config_knowntasks(a) ==
    IF a.loss = "softmax" THEN Return(SoftmaxConfig(a.nfeat, a.nclass))
    ELSE IF a.loss = "contrastive" THEN
        Return(ContrastiveConfig(a.margin, DistanceFromName(a.distance), a.size_average,
                                 a.task \in {"mnist", "ami", "sst2"}))
    ELSE IF a.loss = "triplet" THEN
        LET sampling == get_triplet_strategy(a.triplet_strategy, a.semihard_n)
        IN  IF sampling.exc.type # "none" THEN Raise(sampling.exc)
            ELSE Return(TripletConfig(a.margin, a.loss_scale, DistanceFromName(a.distance),
                                      a.size_average, a.task \in {"mnist", "ami", "sst2"},
                                      sampling.value))
    ELSE IF a.loss = "arcface" THEN
        Return(ArcFaceConfig(a.nfeat, a.nclass, a.margin, a.loss_scale))
    ELSE IF a.loss = "center" THEN
        Return(CenterConfig(a.nfeat, a.nclass, a.loss_scale, DistanceFromName(a.distance)))
    ELSE IF a.loss = "coco" THEN Return(CocoConfig(a.nfeat, a.nclass, a.loss_scale))
    ELSE IF a.loss = "kldiv" THEN Return(KLDivergenceConfig(a.nfeat))
    ELSE Raise(ValueError(<<"Loss", "function", "should", "be", "one", "of:">>
                          \o LOSS_OPTIONS_STR))

get_config(a) ==
    IF a.loss = "softmax" THEN Return(SoftmaxConfig(a.nfeat, a.nclass))
    ELSE IF a.loss = "contrastive" THEN
        Return(ContrastiveConfig(a.margin, DistanceFromName(a.distance), a.size_average,
                                 a.task # "sts" /\ a.task # "snli"))
    ELSE IF a.loss = "triplet" THEN
        LET sampling == get_triplet_strategy(a.triplet_strategy, a.semihard_n)
        IN  IF sampling.exc.type # "none" THEN Raise(sampling.exc)
            ELSE Return(TripletConfig(a.margin, a.loss_scale, DistanceFromName(a.distance),
                                      a.size_average, a.task # "sts" /\ a.task # "snli",
                                      sampling.value))
    ELSE IF a.loss = "arcface" THEN
        Return(ArcFaceConfig(a.nfeat, a.nclass, a.margin, a.loss_scale))
    ELSE IF a.loss = "center" THEN
        Return(CenterConfig(a.nfeat, a.nclass, a.loss_scale, DistanceFromName(a.distance)))
    ELSE IF a.loss = "coco" THEN Return(CocoConfig(a.nfeat, a.nclass, a.loss_scale))
    ELSE IF a.loss = "kldiv" THEN Return(KLDivergenceConfig(a.nfeat))
    ELSE Raise(ValueError(<<"Loss", "function", "should", "be", "one", "of:">>
                          \o LOSS_OPTIONS_STR))

(***************************************************************************)
(* models.py: a SimNet is its kind and the loss module it was built with   *)
(* ("None" when built without one).                                        *)
(***************************************************************************)
SimNetKinds == {"MNISTNet", "SpeakerNet"}

layers(model) ==
    IF model.kind = "MNISTNet" THEN <<"net">> ELSE <<"cnn", "dnn">>

\* one parameter collection per layer, then the loss module's when there is one
all_params(model) ==
    LET params == [i \in 1..Len(layers(model)) |-> {layers(model)[i]}]
    IN  IF model.loss_module # "None" THEN Append(params, {"loss_module"}) ELSE params

\* nn.Module.parameters(): the parameters of every submodule assigned to the
\* model in __init__ (its layers and, when not None, its loss_module)
parameters(model) ==
    {layers(model)[i] : i \in 1..Len(layers(model))}
        \cup (IF model.loss_module # "None" THEN {"loss_module"} ELSE {})

\* SoftmaxCenterLoss.center_parameters(): the class centers the loss owns
center_parameters(loss) == {"center"}

(***************************************************************************)
(* torch.optim and torch.optim.lr_scheduler constructors, with the         *)
(* arguments config.py passes (momentum and weight_decay default to 0).    *)
(* A scheduler holds the optimizer it was constructed on.                  *)
(***************************************************************************)
SGD(params, lr, momentum, weight_decay) ==
    [kind |-> "SGD", params |-> params, lr |-> lr, momentum |-> momentum,
     weight_decay |-> weight_decay]

RMSprop(params, lr, momentum) ==
    [kind |-> "RMSprop", params |-> params, lr |-> lr, momentum |-> momentum]

StepLR(optimizer, step_size, gamma) ==
    [kind |-> "StepLR", optimizer |-> optimizer, step_size |-> step_size, gamma |-> gamma]

ReduceLROnPlateau(optimizer, mode, factor, patience) ==
    [kind |-> "ReduceLROnPlateau", optimizer |-> optimizer, mode |-> mode,
     factor |-> factor, patience |-> patience]

\* core.base.Optimizer(optimizers, schedulers)
Optimizer(optimizers, schedulers) ==
    [optimizers |-> optimizers, schedulers |-> schedulers]

(***************************************************************************)
(* losses/config.py: optimizer(self, model, task, lr) of each variant.     *)
(* lr is the pair <<lr[0], lr[1]>> of the code, so lr[1] below is the      *)
(* code's lr[0].  params[1] of the code (the second element) raises        *)
(* IndexError when all_params() has a single element.                      *)
(***************************************************************************)
\* variant: the loss module gets an optimizer of its own
KLDivergenceOptimizer_split(self, model, task, lr) ==
    LET params == all_params(model)
    IN  IF Len(params) < 2 THEN Raise(IndexError)
        ELSE Return(Optimizer(<<RMSprop(params[1], lr[1], 0),
                                RMSprop(params[2], 10 * lr[1], 0)>>, <<>>))

KLDivergenceOptimizer(self, model, task, lr) ==
    Return(Optimizer(<<RMSprop(parameters(model), lr[1], 0)>>, <<>>))

\* variant: every task other than mnist takes the RMSprop branch
SoftmaxOptimizer_anytask(self, model, task, lr) ==
    IF task = "mnist" THEN
        LET optimizers == <<SGD(parameters(model), lr[1], 9, 5)>>
            schedulers == <<StepLR(optimizers[1], 10, 5)>>
        IN  Return(Optimizer(optimizers, schedulers))
    ELSE
        LET optimizers == <<RMSprop(parameters(model), lr[1], 0)>>
            schedulers == <<ReduceLROnPlateau(optimizers[1], "max", 5, 5)>>
        IN  Return(Optimizer(optimizers, schedulers))

SoftmaxOptimizer(self, model, task, lr) ==
    IF task = "mnist" THEN
        LET optimizers == <<SGD(parameters(model), lr[1], 9, 5)>>
            schedulers == <<StepLR(optimizers[1], 10, 5)>>
        IN  Return(Optimizer(optimizers, schedulers))
    ELSE IF task \in {"sts", "ami", "sst2"} THEN
        LET optimizers == <<RMSprop(parameters(model), lr[1], 0)>>
            schedulers == <<ReduceLROnPlateau(optimizers[1], "max", 5, 5)>>
        IN  Return(Optimizer(optimizers, schedulers))
    ELSE Raise(ValueError(<<"Task", "must", "be", "one", "of", "mnist/sts">>))

\* variant: both schedulers are constructed on the first optimizer
ArcFaceOptimizer_samesched(self, model, task, lr) ==
    IF task = "mnist" THEN
        LET params == all_params(model)
        IN  IF Len(params) < 2 THEN Raise(IndexError)
            ELSE LET optimizers == <<SGD(params[1], lr[1], 9, 5),
                                     SGD(params[2], 10 * lr[1], 0, 0)>>
                     schedulers == <<StepLR(optimizers[1], 8, 6),
                                     StepLR(optimizers[1], 8, 8)>>
                 IN  Return(Optimizer(optimizers, schedulers))
    ELSE IF task \in {"sts", "ami", "sst2"} THEN
        LET params == all_params(model)
        IN  IF Len(params) < 2 THEN Raise(IndexError)
            ELSE LET optimizers == <<RMSprop(params[1], lr[1], 0),
                                     RMSprop(params[2], 10 * lr[1], 0)>>
                     schedulers == <<ReduceLROnPlateau(optimizers[1], "max", 5, 5),
                                     ReduceLROnPlateau(optimizers[1], "max", 5, 5)>>
                 IN  Return(Optimizer(optimizers, schedulers))
    ELSE Raise(ValueError(<<"Task", "must", "be", "one", "of", "mnist/sts">>))

ArcFaceOptimizer(self, model, task, lr) ==
    IF task = "mnist" THEN
        LET params == all_params(model)
        IN  IF Len(params) < 2 THEN Raise(IndexError)
            ELSE LET optimizers == <<SGD(params[1], lr[1], 9, 5),
                                     SGD(params[2], 10 * lr[1], 0, 0)>>
                     schedulers == <<StepLR(optimizers[1], 8, 6),
                                     StepLR(optimizers[2], 8, 8)>>
                 IN  Return(Optimizer(optimizers, schedulers))
    ELSE IF task \in {"sts", "ami", "sst2"} THEN
        LET params == all_params(model)
        IN  IF Len(params) < 2 THEN Raise(IndexError)
            ELSE LET optimizers == <<RMSprop(params[1], lr[1], 0),
                                     RMSprop(params[2], 10 * lr[1], 0)>>
                     schedulers == <<ReduceLROnPlateau(optimizers[1], "max", 5, 5),
                                     ReduceLROnPlateau(optimizers[2], "max", 5, 5)>>
                 IN  Return(Optimizer(optimizers, schedulers))
    ELSE Raise(ValueError(<<"Task", "must", "be", "one", "of", "mnist/sts">>))

\* variant: the second optimizer takes lr[1] of the code (the --clf-lr value)
CenterOptimizer_clflr(self, model, task, lr) ==
    IF task = "mnist" THEN
        LET optimizers == <<SGD(parameters(model), lr[1], 9, 5),
                            SGD(center_parameters(self.loss), lr[2], 0, 0)>>
            schedulers == <<StepLR(optimizers[1], 20, 8)>>
        IN  Return(Optimizer(optimizers, schedulers))
    ELSE IF task \in {"sts", "ami", "sst2"} THEN
        LET params == all_params(model)
        IN  IF Len(params) < 2 THEN Raise(IndexError)
            ELSE LET optimizers == <<RMSprop(params[1], lr[1], 0),
                                     RMSprop(params[2], lr[2], 0)>>
                     schedulers == <<ReduceLROnPlateau(optimizers[1], "max", 5, 5),
                                     ReduceLROnPlateau(optimizers[2], "max", 5, 5)>>
                 IN  Return(Optimizer(optimizers, schedulers))
    ELSE Raise(ValueError(<<"Task", "must", "be", "one", "of", "mnist/sts">>))

CenterOptimizer(self, model, task, lr) ==
    IF task = "mnist" THEN
        LET optimizers == <<SGD(parameters(model), lr[1], 9, 5),
                            SGD(center_parameters(self.loss), 10 * lr[1], 0, 0)>>
            schedulers == <<StepLR(optimizers[1], 20, 8)>>
        IN  Return(Optimizer(optimizers, schedulers))
    ELSE IF task \in {"sts", "ami", "sst2"} THEN
        LET params == all_params(model)
        IN  IF Len(params) < 2 THEN Raise(IndexError)
            ELSE LET optimizers == <<RMSprop(params[1], lr[1], 0),
                                     RMSprop(params[2], 10 * lr[1], 0)>>
                     schedulers == <<ReduceLROnPlateau(optimizers[1], "max", 5, 5),
                                     ReduceLROnPlateau(optimizers[2], "max", 5, 5)>>
                 IN  Return(Optimizer(optimizers, schedulers))
    ELSE Raise(ValueError(<<"Task", "must", "be", "one", "of", "mnist/sts">>))

\* variant: the mnist branch builds its second optimizer as in the other branch
CocoOptimizer_mixed(self, model, task, lr) ==
    IF task = "mnist" THEN
        LET params == all_params(model)
        IN  IF Len(params) < 2 THEN Raise(IndexError)
            ELSE LET optimizers == <<SGD(params[1], lr[1], 9, 5),
                                     RMSprop(params[2], 10 * lr[1], 0)>>
                     schedulers == <<StepLR(optimizers[1], 10, 5)>>
                 IN  Return(Optimizer(optimizers, schedulers))
    ELSE IF task \in {"sts", "ami", "sst2"} THEN
        LET params == all_params(model)
        IN  IF Len(params) < 2 THEN Raise(IndexError)
            ELSE LET optimizers == <<RMSprop(params[1], lr[1], 0),
                                     RMSprop(params[2], 10 * lr[1], 0)>>
                     schedulers == <<ReduceLROnPlateau(optimizers[1], "max", 5, 5),
                                     ReduceLROnPlateau(optimizers[2], "max", 5, 5)>>
                 IN  Return(Optimizer(optimizers, schedulers))
    ELSE Raise(ValueError(<<"Task", "must", "be", "one", "of", "mnist/sts">>))

CocoOptimizer(self, model, task, lr) ==
    IF task = "mnist" THEN
        LET params == all_params(model)
        IN  IF Len(params) < 2 THEN Raise(IndexError)
            ELSE LET optimizers == <<SGD(params[1], lr[1], 9, 5),
                                     SGD(params[2], 10 * lr[1], 9, 0)>>
                     schedulers == <<StepLR(optimizers[1], 10, 5)>>
                 IN  Return(Optimizer(optimizers, schedulers))
    ELSE IF task \in {"sts", "ami", "sst2"} THEN
        LET params == all_params(model)
        IN  IF Len(params) < 2 THEN Raise(IndexError)
            ELSE LET optimizers == <<RMSprop(params[1], lr[1], 0),
                                     RMSprop(params[2], 10 * lr[1], 0)>>
                     schedulers == <<ReduceLROnPlateau(optimizers[1], "max", 5, 5),
                                     ReduceLROnPlateau(optimizers[2], "max", 5, 5)>>
                 IN  Return(Optimizer(optimizers, schedulers))
    ELSE Raise(ValueError(<<"Task", "must", "be", "one", "of", "mnist/sts">>))

ContrastiveOptimizer(self, model, task, lr) ==
    IF task = "mnist" THEN
        LET optimizers == <<SGD(parameters(model), lr[1], 9, 5)>>
            schedulers == <<StepLR(optimizers[1], 4, 8)>>
        IN  Return(Optimizer(optimizers, schedulers))
    ELSE IF task \in {"sts", "ami", "snli", "sst2"} THEN
        LET optimizers == <<RMSprop(parameters(model), lr[1], 9)>>
            schedulers == <<ReduceLROnPlateau(optimizers[1], "max", 5, 5)>>
        IN  Return(Optimizer(optimizers, schedulers))
    ELSE Raise(ValueError(<<"Task", "must", "be", "one", "of", "mnist/sts/ami/snli">>))

TripletOptimizer(self, model, task, lr) ==
    IF task = "mnist" THEN
        LET optimizers == <<SGD(parameters(model), lr[1], 9, 5)>>
            schedulers == <<StepLR(optimizers[1], 5, 8)>>
        IN  Return(Optimizer(optimizers, schedulers))
    ELSE IF task \in {"sts", "ami", "snli", "sst2"} THEN
        LET optimizers == <<RMSprop(parameters(model), lr[1], 9)>>
            schedulers == <<ReduceLROnPlateau(optimizers[1], "max", 5, 5)>>
        IN  Return(Optimizer(optimizers, schedulers))
    ELSE Raise(ValueError(<<"Task", "must", "be", "one", "of", "mnist/sts/ami/snli">>))

\* self.optimizer(model, task, lr): the method of self's class
optimizer(self, model, task, lr) ==
    CASE self.variant = "KLDivergenceConfig" -> KLDivergenceOptimizer(self, model, task, lr)
      [] self.variant = "SoftmaxConfig" -> SoftmaxOptimizer(self, model, task, lr)
      [] self.variant = "ArcFaceConfig" -> ArcFaceOptimizer(self, model, task, lr)
      [] self.variant = "CenterConfig" -> CenterOptimizer(self, model, task, lr)
      [] self.variant = "CocoConfig" -> CocoOptimizer(self, model, task, lr)
      [] self.variant = "ContrastiveConfig" -> ContrastiveOptimizer(self, model, task, lr)
      [] self.variant = "TripletConfig" -> TripletOptimizer(self, model, task, lr)

(***************************************************************************)
(* State machine of the dispatcher: a script calls get_config once with    *)
(* its parsed arguments, or get_triplet_strategy on its own.               *)
(***************************************************************************)
NoArgs == [loss |-> "None"]
NoCall == [task |-> "None"]
NoOptim == [optimizers |-> <<>>, schedulers |-> <<>>]

Init ==
    /\ pc = "start"
    /\ args = NoArgs
    /\ config = NoValue
    /\ raised = NoException
    /\ strategy = NoValue
    /\ call = NoCall
    /\ optim = NoOptim
    /\ dirs = {}
    /\ history = <<>>

GetConfig ==
    /\ pc = "start"
    /\ \E a \in ArgsDomain :
          LET r == get_config(a)
          IN  /\ args' = a
              /\ config' = r.value
              /\ raised' = r.exc
              /\ pc' = IF r.exc.type = "none" THEN "configured" ELSE "failed"
    /\ UNCHANGED <<strategy, call, optim, dirs, history>>

GetTripletStrategy ==
    /\ pc = "start"
    /\ \E s \in StrategyNames, n \in 1..MaxSemihardN :
          LET r == get_triplet_strategy(s, n)
          IN  /\ args' = [triplet_strategy |-> s, semihard_n |-> n]
              /\ strategy' = r.value
              /\ raised' = r.exc
              /\ pc' = IF r.exc.type = "none" THEN "strategy" ELSE "strategy_failed"
    /\ UNCHANGED <<config, call, optim, dirs, history>>

Next == GetConfig \/ GetTripletStrategy

Spec == Init /\ [][Next]_vars

(***************************************************************************)
(* State machine of optimizer assembly: it starts from a LossConfig that   *)
(* get_config returned; the training script builds a SimNet (with the      *)
(* configuration's loss module, or with none) and calls                    *)
(* config.optimizer(model, task, lr) once.                                 *)
(***************************************************************************)
ReturnedConfigs ==
    {get_config(a).value : a \in {b \in ArgsDomain : get_config(b).exc.type = "none"}}

InitOptim ==
    /\ pc = "configured"
    /\ args = NoArgs
    /\ config \in ReturnedConfigs
    /\ raised = NoException
    /\ strategy = NoValue
    /\ call = NoCall
    /\ optim = NoOptim
    /\ dirs = {}
    /\ history = <<>>

BuildOptimizer ==
    /\ pc = "configured"
    /\ \E kind \in SimNetKinds, lm \in {config.loss_module, "None"},
          task \in TaskNames, lr0 \in 1..MaxLr, lr1 \in 1..MaxLr :
          LET model == [kind |-> kind, loss_module |-> lm]
              r == optimizer(config, model, task, <<lr0, lr1>>)
          IN  /\ call' = [model |-> model, task |-> task, lr |-> <<lr0, lr1>>]
              /\ optim' = IF r.exc.type = "none" THEN r.value ELSE NoOptim
              /\ raised' = r.exc
              /\ pc' = IF r.exc.type = "none" THEN "assembled" ELSE "failed"
    /\ UNCHANGED <<args, config, strategy, dirs, history>>

NextOptim == BuildOptimizer

SpecOptim == InitOptim /\ [][NextOptim]_vars

(***************************************************************************)
(* common.py: create_log_dir(exp_path, args).  os.makedirs creates the     *)
(* directory and every missing parent; exit(1) ends the program.           *)
(***************************************************************************)
makedirs(fs, path) == fs \cup {SubSeq(path, 1, k) : k \in 1..Len(path)}

isdir(fs, path) == path \in fs

\* variant: the existence test is left to makedirs(exist_ok=True)
create_log_dir_exist_ok(fs, exp_path, a) ==
    LET base == <<exp_path, a.model, a.loss, <<"lr", a.lr>>>>
        with_margin == IF a.loss \in {"arcface", "contrastive"}
                       THEN Append(base, <<"margin", a.margin>>) ELSE base
        with_lambda == IF a.loss = "center"
                       THEN Append(with_margin, <<"lambda", a.loss_scale>>) ELSE with_margin
        log_path == IF a.loss \in {"arcface", "coco", "triplet"}
                    THEN Append(with_lambda, <<"scale", a.loss_scale>>) ELSE with_lambda
    IN  [status |-> "returned", code |-> 0, log_path |-> log_path,
         value |-> log_path, dirs |-> makedirs(fs, log_path)]

create_log_dir(fs, exp_path, a) ==
    LET base == <<exp_path, a.model, a.loss, <<"lr", a.lr>>>>
        with_margin == IF a.loss \in {"arcface", "contrastive"}
                       THEN Append(base, <<"margin", a.margin>>) ELSE base
        with_lambda == IF a.loss = "center"
                       THEN Append(with_margin, <<"lambda", a.loss_scale>>) ELSE with_margin
        log_path == IF a.loss \in {"arcface", "coco", "triplet"}
                    THEN Append(with_lambda, <<"scale", a.loss_scale>>) ELSE with_lambda
    IN  IF isdir(fs, log_path)
        THEN [status |-> "exit", code |-> 1, log_path |-> log_path,
              value |-> <<>>, dirs |-> fs]
        ELSE [status |-> "returned", code |-> 0, log_path |-> log_path,
              value |-> log_path, dirs |-> makedirs(fs, log_path)]

(***************************************************************************)
(* State machine of the experiment directory: every run of a training      *)
(* script calls create_log_dir once with its parsed arguments, on the file *)
(* system the earlier runs left; history records each run's arguments and  *)
(* how its call ended.                                                     *)
(***************************************************************************)
ExpPaths == {"exp"}
ModelNames == {"MNISTNet"}
\* two values of each formatted option: only their equality shows in a path
OptionValues == {1, 2}

LogArgsDomain ==
    [model : ModelNames, loss : LossNames, lr : OptionValues, margin : OptionValues,
     loss_scale : OptionValues]

InitLog ==
    /\ pc = "run"
    /\ args = NoArgs
    /\ config = NoValue
    /\ raised = NoException
    /\ strategy = NoValue
    /\ call = NoCall
    /\ optim = NoOptim
    /\ dirs = {}
    /\ history = <<>>

CreateLogDir ==
    /\ pc = "run"
    /\ Len(history) < MaxRuns
    /\ \E exp_path \in ExpPaths, a \in LogArgsDomain :
          LET r == create_log_dir(dirs, exp_path, a)
          IN  /\ dirs' = r.dirs
              /\ history' = Append(history, [exp_path |-> exp_path, args |-> a,
                                             status |-> r.status, code |-> r.code,
                                             log_path |-> r.log_path, value |-> r.value])
    /\ UNCHANGED <<pc, args, config, raised, strategy, call, optim>>

NextLog == CreateLogDir

SpecLog == InitLog /\ [][NextLog]_vars

(***************************************************************************)
(* Vocabulary of the properties.                                           *)
(***************************************************************************)
\* the loss names, strategy names and task identifiers the documentation lists
DocumentedLossNames ==
    {"softmax", "contrastive", "triplet", "arcface", "center", "coco", "kldiv"}
DocumentedStrategyNames == {"all", "semihard-neg", "hardest-neg", "hardest-pos-neg"}
DocumentedTasks == {"mnist", "sts", "ami", "snli", "sst2"}

AfterGetConfig == pc \in {"configured", "failed"} /\ args # NoArgs
AfterGetTripletStrategy == pc \in {"strategy", "strategy_failed"}
AfterOptimizer == pc \in {"assembled", "failed"} /\ call # NoCall

Range(seq) == {seq[i] : i \in 1..Len(seq)}

(***************************************************************************)
(* Dispatcher (specification Spec).                                        *)
(***************************************************************************)

\* C1: get_config called with a loss name outside softmax, contrastive, triplet,
\* arcface, center, coco, kldiv raises ValueError and returns no LossConfig,
\* whatever the other arguments are.
C1_UnknownLossRaises ==
    (AfterGetConfig /\ args.loss \notin DocumentedLossNames)
        => (raised.type = "ValueError" /\ config = NoValue /\ pc = "failed")

C1_Witness ==
    /\ AfterGetConfig
    /\ args.loss = "bogus"
    /\ args.triplet_strategy = "semihard-neg"
    /\ raised.type = "ValueError"

\* C2 as stated: an unrecognized triplet-strategy name makes get_config fail for
\* every accepted loss name, and makes get_triplet_strategy raise ValueError.
C2_Original ==
    /\ (AfterGetConfig /\ args.loss \in DocumentedLossNames
            /\ args.triplet_strategy \notin DocumentedStrategyNames)
        => (raised.type = "ValueError" /\ config = NoValue)
    /\ (AfterGetTripletStrategy /\ args.triplet_strategy \notin DocumentedStrategyNames)
        => (raised.type = "ValueError" /\ strategy = NoValue)

\* C2 amended: an unrecognized triplet-strategy name makes get_config fail with
\* ValueError, returning no LossConfig, when the loss name is triplet; for every
\* other accepted loss name get_config does not look at the strategy name and
\* returns the LossConfig; get_triplet_strategy raises ValueError for every
\* unrecognized name and every semihard_n.
C2_StrategyCheckedForTripletOnly ==
    /\ (AfterGetConfig /\ args.triplet_strategy \notin DocumentedStrategyNames)
        => /\ args.loss = "triplet" => (raised.type = "ValueError" /\ config = NoValue)
           /\ args.loss \in DocumentedLossNames \ {"triplet"}
                => (raised = NoException /\ config # NoValue
                    /\ config = get_config([args EXCEPT !.triplet_strategy = "all"]).value)
    /\ (AfterGetTripletStrategy /\ args.triplet_strategy \notin DocumentedStrategyNames)
        => (raised.type = "ValueError" /\ strategy = NoValue)

C2_Witness ==
    /\ AfterGetConfig
    /\ args.loss = "triplet"
    /\ args.triplet_strategy = "bogus"
    /\ raised.type = "ValueError"
    /\ config = NoValue

\* the names an error message lists after "one of:", and the names get_config accepts
ListedIn(msg) ==
    LET k == CHOOSE i \in 1..Len(msg) : msg[i] = "of:"
    IN  {msg[i] : i \in (k + 1)..Len(msg)} \ {"/"}
AcceptedLossNames ==
    {l \in LossNames : \E a \in ArgsDomain : a.loss = l /\ get_config(a).exc.type = "none"}

\* C4: the error get_config raises for an invalid loss name contains the rejected
\* name, and the names it lists are exactly the names get_config accepts.
C4_MessageNamesOffenderAndAllowedSet ==
    (AfterGetConfig /\ args.loss \notin AcceptedLossNames)
        => /\ raised.type = "ValueError"
           /\ args.loss \in Range(raised.msg)
           /\ ListedIn(raised.msg) = AcceptedLossNames

\* the two halves of C4, for the record of which of them the code breaks
C4_MessageContainsOffender ==
    (AfterGetConfig /\ args.loss \notin AcceptedLossNames)
        => args.loss \in Range(raised.msg)
C4_MessageListsAcceptedSet ==
    (AfterGetConfig /\ args.loss \notin AcceptedLossNames)
        => ListedIn(raised.msg) = AcceptedLossNames

(***************************************************************************)
(* Optimizer assembly (specification SpecOptim).                           *)
(***************************************************************************)

\* C3 as stated: for every variant, optimizer called with a task outside mnist,
\* sts, ami, snli, sst2 raises ValueError and returns no Optimizer.
C3_Original ==
    (AfterOptimizer /\ call.task \notin DocumentedTasks)
        => (raised.type = "ValueError" /\ optim = NoOptim)

\* C3 amended: for every variant other than KLDivergenceConfig, optimizer called
\* with a task outside mnist, sts, ami, snli, sst2 raises ValueError and returns
\* no Optimizer; KLDivergenceConfig.optimizer does not look at the task and
\* returns its Optimizer for every task.
C3_UnknownTaskRaisesExceptKLDiv ==
    /\ (AfterOptimizer /\ call.task \notin DocumentedTasks
            /\ config.variant # "KLDivergenceConfig")
        => (raised.type = "ValueError" /\ optim = NoOptim /\ pc = "failed")
    /\ (AfterOptimizer /\ config.variant = "KLDivergenceConfig")
        => (raised = NoException /\ pc = "assembled" /\ Len(optim.optimizers) = 1)

C3_Witness ==
    /\ AfterOptimizer
    /\ config.variant = "SoftmaxConfig"
    /\ call.task = "bogus"
    /\ raised.type = "ValueError"

\* C5: whenever optimizer returns two underlying optimizers, the first holds
\* feature-extractor parameters, the second holds parameters the loss owns, and
\* every collection of model.all_params() (each layer, and the loss module)
\* belongs to exactly one of the two; for every SimNet built with a loss module.
C5_TwoOptimizersCoverAllParams ==
    (pc = "assembled" /\ Len(optim.optimizers) = 2 /\ call.model.loss_module # "None")
        => LET params == all_params(call.model)
               holders(i) == {j \in 1..2 : params[i] \subseteq optim.optimizers[j].params}
           IN  /\ optim.optimizers[1].params \cap Range(layers(call.model)) # {}
               /\ optim.optimizers[2].params \subseteq {"loss_module", "center"}
               /\ \A i \in 1..Len(params) : Cardinality(holders(i)) = 1

\* C6: for every recognized task, the Optimizer CenterConfig.optimizer builds
\* holds the class centers (self.loss.center_parameters()) in one of its
\* underlying optimizers.  Stated for models built with the configuration's loss
\* module, as the training scripts build them.
C6_CentersAreOptimized ==
    (pc = "assembled" /\ config.variant = "CenterConfig"
        /\ call.model.loss_module = config.loss_module
        /\ call.task \in {"mnist", "sts", "ami", "sst2"})
        => \E j \in 1..Len(optim.optimizers) :
              center_parameters(config.loss) \subseteq optim.optimizers[j].params

\* C7 as stated: with a recognized task, optimizer returns exactly two underlying
\* optimizers when the configuration has a loss module and exactly one when it
\* has none.  Stated for models built with the configuration's loss module.
C7_Original ==
    (pc = "assembled" /\ call.task \in DocumentedTasks
        /\ call.model.loss_module = config.loss_module)
        => Len(optim.optimizers) = (IF config.loss_module # "None" THEN 2 ELSE 1)

\* C7 amended: with a recognized task, an Optimizer returned by ArcFaceConfig,
\* CenterConfig or CocoConfig holds exactly two underlying optimizers, and one
\* returned by SoftmaxConfig, KLDivergenceConfig, ContrastiveConfig or
\* TripletConfig holds exactly one (Softmax and KL-Divergence own a loss module
\* and optimize it together with the model in their single optimizer).
C7_OptimizerCountPerVariant ==
    (pc = "assembled" /\ call.task \in DocumentedTasks)
        => /\ config.variant \in {"ArcFaceConfig", "CenterConfig", "CocoConfig"}
                => Len(optim.optimizers) = 2
           /\ config.variant \in {"SoftmaxConfig", "KLDivergenceConfig",
                                  "ContrastiveConfig", "TripletConfig"}
                => Len(optim.optimizers) = 1
           /\ config.variant \in {"SoftmaxConfig", "KLDivergenceConfig"}
                /\ call.model.loss_module # "None"
                => "loss_module" \in optim.optimizers[1].params

C7_Witness ==
    /\ pc = "assembled"
    /\ config.variant = "SoftmaxConfig"
    /\ config.loss_module # "None"
    /\ call.model.loss_module = config.loss_module
    /\ call.task = "sts"
    /\ Len(optim.optimizers) = 1

C9_SchedulersMatchOptimizers ==
    pc = "assembled"
        => /\ Len(optim.optimizers) >= 1
           /\ \A i \in 1..Len(optim.schedulers) :
                optim.schedulers[i].optimizer \in Range(optim.optimizers)
           /\ \A i, j \in 1..Len(optim.schedulers) :
                i # j => optim.schedulers[i].optimizer # optim.schedulers[j].optimizer
           /\ Len(optim.schedulers) <= Len(optim.optimizers)

C9_Witness ==
    /\ pc = "assembled"
    /\ Len(optim.optimizers) = 2
    /\ Len(optim.schedulers) = 2
    /\ optim.schedulers[2].optimizer = optim.optimizers[2]

\* C10: for every variant that dispatches on the task, with task mnist every
\* optimizer is SGD (the first with momentum 0.9) and every scheduler StepLR;
\* with task sts, ami or sst2 (and snli for Contrastive and Triplet) every
\* optimizer is RMSprop and every scheduler ReduceLROnPlateau with mode max,
\* factor 0.5, patience 5; no returned Optimizer mixes the two families.
C10_PlanHomogeneousPerTaskFamily ==
    (pc = "assembled" /\ config.variant # "KLDivergenceConfig")
        => /\ call.task = "mnist"
                => /\ \A i \in 1..Len(optim.optimizers) : optim.optimizers[i].kind = "SGD"
                   /\ optim.optimizers[1].momentum = 9
                   /\ \A i \in 1..Len(optim.schedulers) : optim.schedulers[i].kind = "StepLR"
           /\ call.task # "mnist"
                => /\ call.task \in {"sts", "ami", "sst2"}
                        \cup (IF config.variant \in {"ContrastiveConfig", "TripletConfig"}
                              THEN {"snli"} ELSE {})
                   /\ \A i \in 1..Len(optim.optimizers) : optim.optimizers[i].kind = "RMSprop"
                   /\ \A i \in 1..Len(optim.schedulers) :
                        /\ optim.schedulers[i].kind = "ReduceLROnPlateau"
                        /\ optim.schedulers[i].mode = "max"
                        /\ optim.schedulers[i].factor = 5
                        /\ optim.schedulers[i].patience = 5
           /\ Len(optim.schedulers) >= 1

C10_Witness ==
    /\ pc = "assembled"
    /\ config.variant = "CocoConfig"
    /\ call.task = "mnist"
    /\ Len(optim.optimizers) = 2
    /\ optim.optimizers[2].kind = "SGD"

(***************************************************************************)
(* Dispatcher, continued (specification Spec).                             *)
(***************************************************************************)

\* the constructor parameter of the returned variant that holds the loss scale
ScaleField(variant) ==
    CASE variant = "TripletConfig" -> "scaling"
      [] variant = "ArcFaceConfig" -> "s"
      [] variant = "CenterConfig" -> "lweight"
      [] variant = "CocoConfig" -> "alpha"
      [] OTHER -> "none"

\* C11: get_config builds one LossConfig variant per accepted loss name and routes
\* the options onto its constructor parameters: margin reaches only contrastive,
\* triplet and arcface; loss_scale becomes triplet scaling, arcface s, center
\* lweight and coco alpha; the distance name is resolved only for contrastive,
\* triplet and center; size_average reaches only contrastive and triplet.
C11_OptionsRoutedToVariant ==
    (AfterGetConfig /\ pc = "configured")
        => LET fields == DOMAIN config
           IN  /\ config.variant =
                    (CASE args.loss = "softmax" -> "SoftmaxConfig"
                       [] args.loss = "contrastive" -> "ContrastiveConfig"
                       [] args.loss = "triplet" -> "TripletConfig"
                       [] args.loss = "arcface" -> "ArcFaceConfig"
                       [] args.loss = "center" -> "CenterConfig"
                       [] args.loss = "coco" -> "CocoConfig"
                       [] args.loss = "kldiv" -> "KLDivergenceConfig"
                       [] OTHER -> "None")
               /\ ("margin" \in fields) = (args.loss \in {"contrastive", "triplet", "arcface"})
               /\ "margin" \in fields => config.margin = args.margin
               /\ (ScaleField(config.variant) # "none")
                    = (args.loss \in {"triplet", "arcface", "center", "coco"})
               /\ ScaleField(config.variant) # "none"
                    => /\ ScaleField(config.variant) \in fields
                       /\ config[ScaleField(config.variant)] = args.loss_scale
               /\ fields \cap {"scaling", "s", "lweight", "alpha"}
                    = {ScaleField(config.variant)} \ {"none"}
               /\ ("distance" \in fields) = (args.loss \in {"contrastive", "triplet", "center"})
               /\ "distance" \in fields => config.distance = DistanceFromName(args.distance)
               /\ ("size_average" \in fields) = (args.loss \in {"contrastive", "triplet"})
               /\ "size_average" \in fields => config.size_average = args.size_average

C11_Witness ==
    /\ AfterGetConfig
    /\ pc = "configured"
    /\ args.loss = "arcface"
    /\ args.margin # args.loss_scale
    /\ config.variant = "ArcFaceConfig"
    /\ config.margin = args.margin
    /\ config.s = args.loss_scale

\* C12: get_triplet_strategy maps each recognized name to its own strategy variant
\* (all to BatchAll, semihard-neg to SemiHardNegative(semihard_n), hardest-neg to
\* HardestNegative, hardest-pos-neg to HardestPositiveNegative); semihard_n
\* affects only the semihard-neg result; and BatchAll is the strategy used when
\* no other is requested: the --triplet-strategy default and the TripletConfig
\* default sampling both give BatchAll.
C12_StrategyPerName ==
    /\ (AfterGetTripletStrategy /\ pc = "strategy")
        => /\ strategy.variant =
                (CASE args.triplet_strategy = "all" -> "BatchAll"
                   [] args.triplet_strategy = "semihard-neg" -> "SemiHardNegative"
                   [] args.triplet_strategy = "hardest-neg" -> "HardestNegative"
                   [] args.triplet_strategy = "hardest-pos-neg" -> "HardestPositiveNegative"
                   [] OTHER -> "None")
           /\ args.triplet_strategy = "semihard-neg"
                => /\ strategy.n = args.semihard_n
                   /\ \A n \in 1..MaxSemihardN :
                        n # args.semihard_n
                            => get_triplet_strategy(args.triplet_strategy, n).value # strategy
           /\ args.triplet_strategy # "semihard-neg"
                => \A n \in 1..MaxSemihardN :
                      get_triplet_strategy(args.triplet_strategy, n).value = strategy
           /\ args.triplet_strategy = TripletStrategyOptionDefault
                => (strategy = BatchAll /\ strategy = TripletConfigDefaultSampling)
    /\ (AfterGetConfig /\ pc = "configured" /\ args.loss = "triplet"
            /\ args.triplet_strategy = TripletStrategyOptionDefault)
        => (config.sampling = BatchAll /\ config.sampling = TripletConfigDefaultSampling)

C12_Witness ==
    /\ AfterGetTripletStrategy
    /\ pc = "strategy"
    /\ args.triplet_strategy = "semihard-neg"
    /\ args.semihard_n = MaxSemihardN
    /\ strategy = SemiHardNegative(MaxSemihardN)

\* optimizer assembly rejects the task: self.optimizer raises ValueError for it
\* with every model and every pair of learning rates
OptimizerRejects(self, task) ==
    \A kind \in SimNetKinds, lm \in {self.loss_module, "None"}, lr0, lr1 \in 1..MaxLr :
        optimizer(self, [kind |-> kind, loss_module |-> lm], task, <<lr0, lr1>>).exc.type
            = "ValueError"

\* C13: for the contrastive and triplet losses get_config enables online mining
\* exactly when the task is neither sts nor snli; get_config never validates the
\* task (its outcome raises the same exception, or none, for every task), so a
\* task that optimizer assembly later rejects still yields a LossConfig with
\* online mining enabled and no error.
C13_OnlineUnlessStsOrSnli ==
    AfterGetConfig
        => /\ \A t \in TaskNames : get_config([args EXCEPT !.task = t]).exc = raised
           /\ (pc = "configured" /\ args.loss \in {"contrastive", "triplet"})
                => /\ config.online = (args.task # "sts" /\ args.task # "snli")
                   /\ OptimizerRejects(config, args.task)
                        => (config.online = TRUE /\ raised = NoException)

C13_Witness ==
    /\ AfterGetConfig
    /\ pc = "configured"
    /\ args.loss = "contrastive"
    /\ args.task = "bogus"
    /\ OptimizerRejects(config, args.task)
    /\ config.online = TRUE

(***************************************************************************)
(* Experiment directory (specification SpecLog).                           *)
(***************************************************************************)

\* the formatted segments of a path (those after the experiment path, the model
\* and the loss) that carry the given key
HasSegment(path, key) == \E i \in 4..Len(path) : path[i][1] = key

\* C14: create_log_dir never reuses an existing experiment directory: when the
\* computed log path already exists it exits with status 1 and leaves the file
\* system as it was; otherwise it creates the directory and returns its path; so
\* after any sequence of calls every returned path was returned once.  The path
\* has a margin segment only for arcface and contrastive, a lambda segment only
\* for center, and a scale segment only for arcface, coco and triplet.
C14_LogDirNeverReused ==
    [][history' # history
        => LET h == history'[Len(history')]
               returns == {i \in 1..Len(history') : history'[i].status = "returned"}
           IN  /\ h.log_path \in dirs
                    => (h.status = "exit" /\ h.code = 1 /\ dirs' = dirs)
               /\ h.log_path \notin dirs
                    => /\ h.status = "returned"
                       /\ h.value = h.log_path
                       /\ h.log_path \in dirs'
                       /\ dirs \subseteq dirs'
               /\ \A i, j \in returns : i # j => history'[i].value # history'[j].value
               /\ HasSegment(h.log_path, "margin") = (h.args.loss \in {"arcface", "contrastive"})
               /\ HasSegment(h.log_path, "lambda") = (h.args.loss = "center")
               /\ HasSegment(h.log_path, "scale") = (h.args.loss \in {"arcface", "coco", "triplet"})
      ]_vars

C14_Witness ==
    /\ Len(history) = 2
    /\ history[1].args.loss = "arcface"
    /\ history[1].status = "returned"
    /\ history[2].status = "exit"
    /\ history[2].code = 1
    /\ history[2].log_path = history[1].value
    /\ history[1].value \in dirs

=============================================================================
